---- MODULE Spec2Model ----
(***************************************************************************)
(* A model of susepkg.py: product-string normalisation, package-name       *)
(* matching, the product catalog (memoized backend lists, filtering and    *)
(* sorting), per-product resolution of the latest package version, and the *)
(* thread-pool coordinator of print_version driven by main.                *)
(*                                                                         *)
(* Python strings are TLA+ strings; TLC evaluates Len, SubSeq and \o on    *)
(* them, which is all the string functions below are built from.           *)
(***************************************************************************)
EXTENDS Integers, Sequences, FiniteSets, TLC

VARIABLES
    call,               \* arguments of the function under evaluation (pure-function specifications)
    ret,                \* its outcome, None until it has run
    argv,               \* the command line: the --product values and the search term
    network,            \* what each backend request answers in this run
    pc,                 \* where the main thread is
    args_product,       \* args.product, the --product values after type=product_string
    main_regex,         \* main's regex, the pattern compiled by get_regex
    package_name,       \* the backend query term get_name extracts
    suse_cache,         \* functools.cache of Product._get_suse_products
    opensuse_cache,     \* functools.cache of Product._get_opensuse_products
    requests,           \* product-list requests issued so far, per backend
    lookups,            \* calls of the memoized _get_suse_products so far
    building,           \* get_products: the primary products built so far
    cursor,             \* get_products: the list the comprehension iterates and its position
    all_products,       \* the result of get_products
    products,           \* the products main hands to print_version
    futures,            \* print_version: one future per submitted product
    finished,           \* the futures in the order their tasks completed
    next_future,        \* the position of the main thread in its loop over futures
    packages,           \* print_version: the rows collected so far
    origin,             \* for each collected row, the future it came from
    fetches,            \* per-product package requests issued so far
    exit_status         \* how the process ended, None while it runs

vars == <<call, ret, argv, network, pc, args_product, main_regex, package_name,
          suse_cache, opensuse_cache, requests, lookups, building, cursor,
          all_products, products, futures, finished, next_future, packages,
          origin, fetches, exit_status>>

pure_vars == <<call, ret>>

run_vars == <<argv, network, pc, args_product, main_regex, package_name,
              suse_cache, opensuse_cache, requests, lookups, building, cursor,
              all_products, products, futures, finished, next_future, packages,
              origin, fetches, exit_status>>

\* Python's None: a call that has not returned yet, a cache not yet filled, ...
None == [kind |-> "none"]

\* Product.id of a product of the community backend (None)
NoId == -1

\* No process is running: the state of the specifications of a single function.
NoRun ==
    /\ argv = [product |-> <<>>, package |-> ""]
    /\ network = [suse |-> None, opensuse |-> None, packages |-> <<>>]
    /\ pc = "off"
    /\ args_product = <<>>
    /\ main_regex = None
    /\ package_name = None
    /\ suse_cache = None
    /\ opensuse_cache = None
    /\ requests = [suse |-> 0, opensuse |-> 0]
    /\ lookups = 0
    /\ building = <<>>
    /\ cursor = [entries |-> <<>>, at |-> 0]
    /\ all_products = <<>>
    /\ products = <<>>
    /\ futures = <<>>
    /\ finished = <<>>
    /\ next_future = 0
    /\ packages = <<>>
    /\ origin = <<>>
    /\ fetches = 0
    /\ exit_status = None

\* No single function is under evaluation: the state of the specifications of a run.
NoCall ==
    /\ call = [fn |-> "none"]
    /\ ret = None

(***************************************************************************)
(* Python str operations                                                   *)
(***************************************************************************)

\* The characters the model uses, in code-point order.
Ascii == "\n *-./0123456789?ABCDEFGHIJKLMNOPQRSTUVWXYZ[_abcdefghijklmnopqrstuvwxyz~"

\* the character at position i, "" past the end
Ch(s, i) == IF 1 <= i /\ i <= Len(s) THEN SubSeq(s, i, i) ELSE ""

RECURSIVE FindFrom(_, _, _)
\* str.find(sub, i-1) + 1: the first position >= i at which sub occurs in s, 0 when none.
FindFrom(s, sub, i) ==
    IF i + Len(sub) - 1 > Len(s) THEN 0
    ELSE IF SubSeq(s, i, i + Len(sub) - 1) = sub THEN i
    ELSE FindFrom(s, sub, i + 1)

Find(s, sub) == FindFrom(s, sub, 1)

RECURSIVE RFindFrom(_, _, _)
\* str.rfind: the last position <= i at which sub occurs in s, 0 when none.
RFindFrom(s, sub, i) ==
    IF i < 1 THEN 0
    ELSE IF i + Len(sub) - 1 <= Len(s) /\ SubSeq(s, i, i + Len(sub) - 1) = sub THEN i
    ELSE RFindFrom(s, sub, i - 1)

RFind(s, sub) == RFindFrom(s, sub, Len(s))

\* sub in s
Contains(s, sub) == Find(s, sub) # 0

StartsWith(s, prefix) ==
    Len(prefix) <= Len(s) /\ SubSeq(s, 1, Len(prefix)) = prefix

EndsWith(s, suffix) ==
    Len(suffix) <= Len(s) /\ SubSeq(s, Len(s) - Len(suffix) + 1, Len(s)) = suffix

RemovePrefix(s, prefix) ==
    IF StartsWith(s, prefix) THEN SubSeq(s, Len(prefix) + 1, Len(s)) ELSE s

RemoveSuffix(s, suffix) ==
    IF EndsWith(s, suffix) THEN SubSeq(s, 1, Len(s) - Len(suffix)) ELSE s

\* s.split(sep, 1)
Split1(s, sep) ==
    LET i == Find(s, sep)
    IN  IF i = 0 THEN <<s>>
        ELSE <<SubSeq(s, 1, i - 1), SubSeq(s, i + Len(sep), Len(s))>>

RECURSIVE RSplit(_, _, _)
\* s.rsplit(sep, n)
RSplit(s, sep, n) ==
    LET i == RFind(s, sep)
    IN  IF n = 0 \/ i = 0 THEN <<s>>
        ELSE Append(RSplit(SubSeq(s, 1, i - 1), sep, n - 1),
                    SubSeq(s, i + Len(sep), Len(s)))

\* the characters of s
CharsOf(s) == {SubSeq(s, i, i) : i \in 1..Len(s)}

OrdOf == [c \in CharsOf(Ascii) |-> Find(Ascii, c)]

\* ord(c), up to the order of the code points
Ord(c) == OrdOf[c]

Digits == CharsOf("0123456789")

Uppercase == "ABCDEFGHIJKLMNOPQRSTUVWXYZ"

Lowercase == "abcdefghijklmnopqrstuvwxyz"

Letters == CharsOf(Uppercase \o Lowercase)

IsDigit(c) == c \in Digits

RECURSIVE AllDigits(_)
AllDigits(s) == s = "" \/ (IsDigit(Ch(s, 1)) /\ AllDigits(Tail(s)))

\* int(s) succeeds: on the model's characters, exactly the non-empty digit strings
\* (Python also takes a sign, blanks and underscores, which no input here holds).
IsInt(s) == s # "" /\ AllDigits(s)

RECURSIVE ToInt(_)
\* int(s) for a digit string
ToInt(s) ==
    IF s = "" THEN 0
    ELSE 10 * ToInt(SubSeq(s, 1, Len(s) - 1)) + (Ord(Ch(s, Len(s))) - Ord("0"))

RECURSIVE StrLess(_, _)
\* a < b on str: code-point lexicographic order
StrLess(a, b) ==
    IF b = "" THEN FALSE
    ELSE IF a = "" THEN TRUE
    ELSE IF Ch(a, 1) = Ch(b, 1) THEN StrLess(Tail(a), Tail(b))
    ELSE Ord(Ch(a, 1)) < Ord(Ch(b, 1))

LowerOf ==
    [c \in CharsOf(Ascii) |->
        IF Find(Uppercase, c) # 0 THEN Ch(Lowercase, Find(Uppercase, c)) ELSE c]

LowerCh(c) == LowerOf[c]

RECURSIVE Lower(_)
\* s.lower()
Lower(s) == IF s = "" THEN "" ELSE LowerCh(Ch(s, 1)) \o Lower(Tail(s))

(***************************************************************************)
(* Outcomes of a call: a value returned or an exception raised             *)
(***************************************************************************)

Ok(v) == [kind |-> "ok", value |-> v]

Raise(e) == [kind |-> "raise", error |-> e]

(***************************************************************************)
(* product_string                                                          *)
(***************************************************************************)

product_string(string) ==
    IF string \in {"Leap", "Leap_Micro", "Tumbleweed"} THEN Ok("openSUSE_" \o string)
    ELSE IF ~Contains(string, "Micro") \/ Contains(string, "Leap") THEN Ok(string)
    ELSE LET parts == Split1(string, "/")
             version == parts[2]
             vparts == Split1(version, ".")
         IN  \* try: string.split("/", 1)[1] and version[0] raise IndexError, caught
             IF Len(parts) < 2 \/ version = "" THEN Ok(string)
             \* int(version[0]) raises ValueError inside the try, which catches IndexError only
             ELSE IF ~IsInt(Ch(version, 1)) THEN Raise("ValueError")
             ELSE IF ToInt(Ch(version, 1)) > 5 THEN Ok("SL-Micro/" \o version)
             \* after the try: version.split(".", 1)[1] and int() are unguarded
             ELSE IF Len(vparts) < 2 THEN Raise("IndexError")
             ELSE IF ~IsInt(vparts[2]) THEN Raise("ValueError")
             ELSE IF ToInt(vparts[2]) > 2 THEN Ok("SLE-Micro/" \o version)
             ELSE Ok("SUSE-MicroOS/" \o version)

\* Inputs of product_string: a product stem followed by a tail of at most
\* MaxTail characters that may or may not form a "/major.minor" suffix.
MaxTail == 3

Stems == {"", "Leap", "Leap_Micro", "Tumbleweed", "SLES", "SLE-Micro", "SUSE-MicroOS"}

TailChars == {"/", ".", "5", "6", "3", "x"}

RECURSIVE Tails(_)
Tails(n) ==
    IF n = 0 THEN {""}
    ELSE LET shorter == Tails(n - 1)
         IN  shorter \cup {t \o c : t \in shorter, c \in TailChars}

ProductStrings == {s \o t : s \in Stems, t \in Tails(MaxTail)}

InitNorm ==
    /\ call \in {[fn |-> "product_string", string |-> s] : s \in ProductStrings}
    /\ ret = None
    /\ NoRun

\* argparse applies type=product_string to one --product value
CallProductString ==
    /\ call.fn = "product_string"
    /\ ret.kind = "none"
    /\ ret' = product_string(call.string)
    /\ UNCHANGED <<call, run_vars>>

NextNorm == CallProductString

SpecNorm == InitNorm /\ [][NextNorm]_vars

\* The malformed version suffixes of a Micro product string.
MalformedMicro(s) ==
    /\ Contains(s, "Micro")
    /\ ~Contains(s, "Leap")
    /\ LET parts == Split1(s, "/")
           vparts == Split1(parts[2], ".")
       IN  \/ Len(parts) < 2
           \/ parts[2] = ""
           \/ ~IsInt(Ch(parts[2], 1))
           \/ Len(vparts) < 2
           \/ ~IsInt(vparts[2])

\* C7: product_string never raises: a Micro string whose version suffix is
\* missing or malformed is returned unchanged (and so is every input that
\* matches no special case).
C7_NeverRaises ==
    (call.fn = "product_string" /\ ret.kind # "none") =>
        /\ ret.kind = "ok"
        /\ MalformedMicro(call.string) => ret.value = call.string

(***************************************************************************)
(* get_regex and re.Pattern.match                                          *)
(***************************************************************************)

\* A compiled pattern is a sequence of tokens:
\*   lit c   the character c
\*   any     "." : any character but a newline (any character at all under (?s))
\*   star    ".*" under (?s), what fnmatch.translate makes of "*"
\*   eol     "$" : the end of the string, or just before a newline that ends it
\*   eos     "\Z": the end of the string
TokLit(c) == [t |-> "lit", c |-> c, dotall |-> FALSE]

TokAny(dotall) == [t |-> "any", c |-> "", dotall |-> dotall]

TokStar == [t |-> "star", c |-> "", dotall |-> TRUE]

TokEol == [t |-> "eol", c |-> "", dotall |-> FALSE]

TokEos == [t |-> "eos", c |-> "", dotall |-> TRUE]

RECURSIVE RegexTokens(_)
\* re.compile(source) for a source of literal characters, "." and "$"
RegexTokens(source) ==
    IF source = "" THEN <<>>
    ELSE LET c == Ch(source, 1)
             tok == IF c = "." THEN TokAny(FALSE) ELSE IF c = "$" THEN TokEol ELSE TokLit(c)
         IN  <<tok>> \o RegexTokens(Tail(source))

RECURSIVE GlobBody(_)
\* fnmatch.translate without its wrapper: "*" -> ".*", "?" -> ".", the rest escaped
GlobBody(pat) ==
    IF pat = "" THEN <<>>
    ELSE LET c == Ch(pat, 1)
             tok == IF c = "*" THEN TokStar ELSE IF c = "?" THEN TokAny(TRUE) ELSE TokLit(c)
         IN  <<tok>> \o GlobBody(Tail(pat))

\* fnmatch.translate(pat) == "(?s:" + body + ")\Z"
FnmatchTranslate(pat) == GlobBody(pat) \o <<TokEos>>

HasGlobChar(package) ==
    Contains(package, "[") \/ Contains(package, "?") \/ Contains(package, "*")

\* get_regex with the literal branch compiled for re.search use, that is
\* without the start anchor that Pattern.match adds: ".*" before the literal.
get_regex_unanchored(package, ignore_case, regex) ==
    [ tokens |-> IF regex THEN RegexTokens(package)
                 ELSE IF HasGlobChar(package) THEN FnmatchTranslate(package)
                 ELSE <<TokStar>> \o RegexTokens(package \o "$"),
      ignore_case |-> ignore_case ]

get_regex(package, ignore_case, regex) ==
    [ tokens |-> IF regex THEN RegexTokens(package)
                 ELSE IF HasGlobChar(package) THEN FnmatchTranslate(package)
                 ELSE RegexTokens(package \o "$"),
      ignore_case |-> ignore_case ]

EqCh(a, b, ignore_case) == IF ignore_case THEN LowerCh(a) = LowerCh(b) ELSE a = b

RECURSIVE MatchHere(_, _, _)
\* the tokens match a prefix of s
MatchHere(tokens, s, ic) ==
    IF tokens = <<>> THEN TRUE
    ELSE LET tok == Head(tokens)
             rest == Tail(tokens)
         IN  CASE tok.t = "lit"  -> s # "" /\ EqCh(tok.c, Ch(s, 1), ic) /\ MatchHere(rest, Tail(s), ic)
               [] tok.t = "any"  -> s # "" /\ (tok.dotall \/ Ch(s, 1) # "\n") /\ MatchHere(rest, Tail(s), ic)
               [] tok.t = "star" -> MatchHere(rest, s, ic) \/ (s # "" /\ MatchHere(tokens, Tail(s), ic))
               [] tok.t = "eol"  -> (s = "" \/ s = "\n") /\ MatchHere(rest, s, ic)
               [] tok.t = "eos"  -> s = "" /\ MatchHere(rest, s, ic)

\* regex.match(string): a match that starts at the first character
PatternMatch(regex, string) == MatchHere(regex.tokens, string, regex.ignore_case)

\* Search terms of at most MaxPat characters, names of at most MaxName.
MaxPat == 2

MaxName == 3

PatChars == {"f", "o", ".", "*"}

NameChars == {"f", "o", "F", "\n"}

RECURSIVE Strings(_, _)
Strings(chars, n) ==
    IF n = 0 THEN {""}
    ELSE LET shorter == Strings(chars, n - 1)
         IN  shorter \cup {t \o c : t \in shorter, c \in chars}

\* -x is drawn only with sources the token grammar above covers (no quantifier).
InitMatch ==
    /\ call \in {c \in [fn : {"match"}, package : Strings(PatChars, MaxPat) \ {""},
                        ignore_case : BOOLEAN, regex : BOOLEAN,
                        name : Strings(NameChars, MaxName)] :
                    c.regex => ~HasGlobChar(c.package)}
    /\ ret = None
    /\ NoRun

\* main compiles the search term; fetch_version filters one record's name with it
CallMatch ==
    /\ call.fn = "match"
    /\ ret.kind = "none"
    /\ ret' = Ok(PatternMatch(get_regex(call.package, call.ignore_case, call.regex), call.name))
    /\ UNCHANGED <<call, run_vars>>

NextMatch == CallMatch

SpecMatch == InitMatch /\ [][NextMatch]_vars

\* The literal branch of get_regex has filtered a name.
LiteralCall ==
    /\ call.fn = "match"
    /\ ret.kind = "ok"
    /\ ~call.regex
    /\ ~HasGlobChar(call.package)

IsAlpha(c) == c \in Letters

IsAlnum(c) == IsDigit(c) \/ IsAlpha(c)

RECURSIVE SkipSeparators(_)
\* rpmvercmp: skip what is neither alphanumeric nor a tilde
SkipSeparators(s) ==
    IF s = "" \/ IsAlnum(Ch(s, 1)) \/ Ch(s, 1) = "~" THEN s
    ELSE SkipSeparators(Tail(s))

RECURSIVE SpanLen(_, _)
\* the length of the leading run of digits (numeric) or of letters
SpanLen(s, numeric) ==
    IF s = "" THEN 0
    ELSE IF (numeric /\ IsDigit(Ch(s, 1))) \/ (~numeric /\ IsAlpha(Ch(s, 1)))
         THEN 1 + SpanLen(Tail(s), numeric)
         ELSE 0

RECURSIVE StripZeros(_)
StripZeros(s) == IF s # "" /\ Ch(s, 1) = "0" THEN StripZeros(Tail(s)) ELSE s

\* strcmp reduced to its sign
StrCmp(a, b) == IF a = b THEN 0 ELSE IF StrLess(a, b) THEN -1 ELSE 1

RECURSIVE VerCmpLoop(_, _)
\* the segment loop of rpmvercmp (rpm's caret separator is not modelled:
\* no version of the model holds one)
VerCmpLoop(one0, two0) ==
    LET one == SkipSeparators(one0)
        two == SkipSeparators(two0)
    IN  IF one = "" /\ two = "" THEN 0
        ELSE IF Ch(one, 1) = "~" \/ Ch(two, 1) = "~" THEN
            IF Ch(one, 1) # "~" THEN 1
            ELSE IF Ch(two, 1) # "~" THEN -1
            ELSE VerCmpLoop(Tail(one), Tail(two))
        ELSE IF one = "" THEN -1
        ELSE IF two = "" THEN 1
        ELSE LET numeric == IsDigit(Ch(one, 1))
                 n1 == SpanLen(one, numeric)
                 n2 == SpanLen(two, numeric)
                 seg1 == IF numeric THEN StripZeros(SubSeq(one, 1, n1)) ELSE SubSeq(one, 1, n1)
                 seg2 == IF numeric THEN StripZeros(SubSeq(two, 1, n2)) ELSE SubSeq(two, 1, n2)
             IN  IF n1 = 0 THEN -1
                 ELSE IF n2 = 0 THEN (IF numeric THEN 1 ELSE -1)
                 ELSE IF numeric /\ Len(seg1) > Len(seg2) THEN 1
                 ELSE IF numeric /\ Len(seg2) > Len(seg1) THEN -1
                 ELSE IF StrCmp(seg1, seg2) # 0 THEN StrCmp(seg1, seg2)
                 ELSE VerCmpLoop(SubSeq(one, n1 + 1, Len(one)), SubSeq(two, n2 + 1, Len(two)))

rpmvercmp(a, b) == IF a = b THEN 0 ELSE VerCmpLoop(a, b)

\* rpm.labelCompare(("1", a.version, a.release), ("1", b.version, b.release)):
\* the epochs are equal, then the versions decide, then the releases
labelCompare(a, b) ==
    IF rpmvercmp(a.version, b.version) # 0 THEN rpmvercmp(a.version, b.version)
    ELSE rpmvercmp(a.release, b.release)

RPMVersion(version, release) == [version |-> version, release |-> release]

\* __lt__ comparing the "version-release" strings as text, not as rpm labels
RPMVersionLt_text(a, b) ==
    StrLess(a.version \o "-" \o a.release, b.version \o "-" \o b.release)

\* RPMVersion.__lt__
RPMVersionLt(a, b) == labelCompare(a, b) < 0

\* RPMVersion.__eq__
RPMVersionEq(a, b) == labelCompare(a, b) = 0

(***************************************************************************)
(* opensuse_package_info and fetch_version                                 *)
(***************************************************************************)

\* opensuse_package_info(info): version and release are the last two
\* hyphen-separated fields of the file name without its last two dot
\* components; the two-name unpacking raises ValueError on any other count.
opensuse_package_info(info) ==
    LET stem == RSplit(info.file, ".", 2)[1]
        fields == RSplit(stem, "-", 2)
        version == fields[2]
        release == fields[3]
    IN  IF Len(fields) # 3 THEN Raise("ValueError")
        ELSE Ok([name |-> Split1(info.file, "-" \o version \o "-" \o release)[1],
                 version |-> version,
                 release |-> release])

\* The sort key (i["name"], RPMVersion(i["version"], i["release"])) compared as
\* Python compares tuples: the first element that is not == decides with <.
SortKeyLess(a, b) ==
    IF a.name # b.name THEN StrLess(a.name, b.name)
    ELSE LET va == RPMVersion(a.version, a.release)
             vb == RPMVersion(b.version, b.release)
         IN  ~RPMVersionEq(va, vb) /\ RPMVersionLt(va, vb)

RECURSIVE InsertSorted(_, _)
\* x put behind every element that is not greater than it (a stable insertion)
InsertSorted(sorted, x) ==
    IF sorted = <<>> THEN <<x>>
    ELSE IF SortKeyLess(x, Head(sorted)) THEN <<x>> \o sorted
    ELSE <<Head(sorted)>> \o InsertSorted(Tail(sorted), x)

RECURSIVE SortedByKey(_)
\* sorted(records, key=...): ascending and stable
SortedByKey(records) ==
    IF records = <<>> THEN <<>>
    ELSE InsertSorted(SortedByKey(SubSeq(records, 1, Len(records) - 1)),
                      records[Len(records)])

\* latest[info["name"]] = RPMVersion(...): a dict keeps the position of a
\* key's first insertion and the value of its last assignment
DictSet(latest, name, rpm_version) ==
    IF \E k \in 1..Len(latest) : latest[k].name = name
    THEN [k \in 1..Len(latest) |->
            IF latest[k].name = name
            THEN [name |-> name, rpm_version |-> rpm_version]
            ELSE latest[k]]
    ELSE Append(latest, [name |-> name, rpm_version |-> rpm_version])

RECURSIVE Latest(_)
\* the loop of fetch_version over the sorted records
Latest(sorted) ==
    IF sorted = <<>> THEN <<>>
    ELSE LET info == sorted[Len(sorted)]
         IN  DictSet(Latest(SubSeq(sorted, 1, Len(sorted) - 1)),
                     info.name, RPMVersion(info.version, info.release))

SelectMatching(data, regex) == SelectSeq(data, LAMBDA i : PatternMatch(regex, i.name))

IsOpenSUSE(product) == StartsWith(product.data, "openSUSE")

\* the list comprehension over opensuse_package_info: the first record that
\* raises ends it
ParseAll(raw) ==
    IF \E k \in 1..Len(raw) : opensuse_package_info(raw[k]).kind = "raise"
    THEN Raise("ValueError")
    ELSE Ok([k \in 1..Len(raw) |-> opensuse_package_info(raw[k]).value])

\* fetch_version(product, package, regex), given what get_data returns or
\* raises for the product's request
fetch_version(product, response, regex) ==
    LET data == IF response.kind = "raise" THEN response
                ELSE IF IsOpenSUSE(product) THEN ParseAll(response.value)
                ELSE response
    IN  IF data.kind = "raise" THEN data
        ELSE LET latest == Latest(SortedByKey(SelectMatching(data.value, regex)))
             IN  Ok([k \in 1..Len(latest) |->
                       [name |-> latest[k].name,
                        product |-> RemovePrefix(product.data, "openSUSE_"),
                        rpm_version |-> latest[k].rpm_version]])

(***************************************************************************)
(* fetch_version on every batch a backend can deliver                      *)
(***************************************************************************)

\* A batch holds at most MaxRecords records.
MaxRecords == 3

\* What the package search of the enterprise backend can hold: two names a
\* glob can select together, a third it cannot, and versions whose rpm order
\* (1.2 = 1.02 < 1.10) is not their text order.
SccRecords ==
    { [name |-> "fo",  version |-> "1.2",  release |-> "1"],
      [name |-> "fo",  version |-> "1.10", release |-> "1"],
      [name |-> "fo",  version |-> "1.10", release |-> "2"],
      [name |-> "fo",  version |-> "1.02", release |-> "1"],
      [name |-> "ff",  version |-> "1.2",  release |-> "1"],
      [name |-> "ff",  version |-> "1.10", release |-> "1"],
      [name |-> "ofo", version |-> "1.2",  release |-> "2"] }

\* The file name the mirror search delivers for a package
FileOf(r) == [file |-> r.name \o "-" \o r.version \o "-" \o r.release \o ".x86_64.rpm"]

\* File names that do not have the <name>-<version>-<release>.<arch>.rpm shape
MalformedFiles == { [file |-> "fo.x86_64.rpm"], [file |-> "fo-1.2.x86_64.rpm"] }

MirrorRecords == {FileOf(r) : r \in SccRecords} \cup MalformedFiles

RECURSIVE SeqsUpTo(_, _)
\* the sequences over S of length at most n
SeqsUpTo(S, n) ==
    IF n = 0 THEN {<<>>}
    ELSE LET shorter == SeqsUpTo(S, n - 1)
         IN  shorter \cup {Append(q, x) : q \in shorter, x \in S}

SccProduct == [data |-> "SLES/15.5", id |-> 42, arch |-> "x86_64"]

LeapProduct == [data |-> "openSUSE_Leap/15.6", id |-> NoId, arch |-> "x86_64"]

SearchTerms == {"fo", "f*"}

InitFetch ==
    /\ call \in
         {[fn |-> "fetch_version", product |-> SccProduct, package |-> t, response |-> Ok(d)] :
             t \in SearchTerms, d \in SeqsUpTo(SccRecords, MaxRecords)}
         \cup
         {[fn |-> "fetch_version", product |-> LeapProduct, package |-> t, response |-> Ok(d)] :
             t \in SearchTerms, d \in SeqsUpTo(MirrorRecords, MaxRecords)}
         \cup
         {[fn |-> "fetch_version", product |-> p, package |-> t,
           response |-> Raise("RequestException")] :
             t \in SearchTerms, p \in {SccProduct, LeapProduct}}
    /\ ret = None
    /\ NoRun

\* one worker task: fetch_version for one product
CallFetchVersion ==
    /\ call.fn = "fetch_version"
    /\ ret.kind = "none"
    /\ ret' = fetch_version(call.product, call.response, get_regex(call.package, FALSE, FALSE))
    /\ UNCHANGED <<call, run_vars>>

NextFetch == CallFetchVersion

SpecFetch == InitFetch /\ [][NextFetch]_vars

\* The records of the call, as name/version/release (a malformed file name
\* yields none), and those the match predicate selects.
RecordsOf(c) ==
    IF c.response.kind = "raise" THEN {}
    ELSE IF IsOpenSUSE(c.product)
         THEN {opensuse_package_info(c.response.value[k]).value :
                  k \in {j \in 1..Len(c.response.value) :
                            opensuse_package_info(c.response.value[j]).kind = "ok"}}
         ELSE {c.response.value[k] : k \in 1..Len(c.response.value)}

MatchingOf(c) ==
    {r \in RecordsOf(c) : PatternMatch(get_regex(c.package, FALSE, FALSE), r.name)}

Reverse(q) == [k \in 1..Len(q) |-> q[Len(q) + 1 - k]]

\* C1: fetch_version returns exactly one package per distinct matching name,
\* carrying the version of a matching record of that name that no matching
\* record of the name exceeds in rpm order; delivering the batch in the
\* opposite order changes neither the names nor the rank of their versions.
C1_LatestPerName ==
    (call.fn = "fetch_version" /\ ret.kind = "ok") =>
        LET out == ret.value
            matching == MatchingOf(call)
            back == fetch_version(call.product, Ok(Reverse(call.response.value)),
                                  get_regex(call.package, FALSE, FALSE)).value
        IN  /\ {out[k].name : k \in 1..Len(out)} = {r.name : r \in matching}
            /\ \A j, k \in 1..Len(out) : out[j].name = out[k].name => j = k
            /\ \A k \in 1..Len(out) :
                  /\ out[k].product = RemovePrefix(call.product.data, "openSUSE_")
                  /\ \E r \in matching :
                        /\ r.name = out[k].name
                        /\ RPMVersion(r.version, r.release) = out[k].rpm_version
                  /\ \A r \in matching :
                        r.name = out[k].name =>
                            labelCompare(RPMVersion(r.version, r.release), out[k].rpm_version) <= 0
            /\ Len(back) = Len(out)
            /\ \A k \in 1..Len(out) :
                  /\ back[k].name = out[k].name
                  /\ labelCompare(back[k].rpm_version, out[k].rpm_version) = 0

\* a batch delivered newest first, whose newest version is not the largest as text
C1_Witness ==
    /\ call.fn = "fetch_version"
    /\ ret.kind = "ok"
    /\ call.package = "f*"
    /\ Len(call.response.value) = 3
    /\ call.response.value[1] = [name |-> "fo", version |-> "1.10", release |-> "1"]
    /\ call.response.value[2] = [name |-> "fo", version |-> "1.2", release |-> "1"]
    /\ call.response.value[3].name = "ff"
    /\ Len(ret.value) = 2
    /\ ret.value[2].rpm_version = RPMVersion("1.10", "1")

\* The batch of a mirror search holds a malformed file name beside well-formed ones.
MixedBatch ==
    /\ call.fn = "fetch_version"
    /\ IsOpenSUSE(call.product)
    /\ call.response.kind = "ok"
    /\ \E k \in 1..Len(call.response.value) :
          opensuse_package_info(call.response.value[k]).kind = "raise"
    /\ MatchingOf(call) # {}

\* C8: a malformed file name drops that record alone: the well-formed records
\* of the batch are still reduced and returned for the product.
C8_OnlyBadRecordDropped ==
    (MixedBatch /\ ret.kind # "none") =>
        /\ ret.kind = "ok"
        /\ {ret.value[k].name : k \in 1..Len(ret.value)} = {r.name : r \in MatchingOf(call)}

(***************************************************************************)
(* The product catalog: Product, the memoized backend lists, get_products  *)
(***************************************************************************)

PRODUCTS == {"SLES/", "SLE-Micro/", "SL-Micro/", "SUSE-MicroOS/"}

EOL ==
    {"SLES/12", "SLES/12.1", "SLES/12.2", "SLES/12.3", "SLES/12.4", "SLES/15",
     "SLES/15.1", "SLES/15.2", "SLES/15.3", "SUSE-MicroOS/5.0", "SUSE-MicroOS/5.1"}

Exit(code, message) == [kind |-> "exit", code |-> code, message |-> message]

\* functools.cache that forgets what the function returned
cache_store_never(cache, result) == cache

\* functools.cache keeps what the function returned; an exception is not kept
cache_store(cache, result) == IF result.kind = "ok" THEN result ELSE cache

\* A call of a function under functools.cache: the stored result if there is
\* one, else the function runs (issuing its request) and its result is stored.
CachedCall(cache, response) ==
    IF cache.kind = "ok"
    THEN [result |-> cache, cache |-> cache, issued |-> 0]
    ELSE [result |-> response, cache |-> cache_store(cache, response), issued |-> 1]

\* Product._get_product_id over the list _get_suse_products returned
get_product_id(catalog, identifier) ==
    IF \E k \in 1..Len(catalog) : catalog[k].identifier = identifier
    THEN Ok(catalog[CHOOSE k \in 1..Len(catalog) :
                      /\ catalog[k].identifier = identifier
                      /\ \A j \in 1..(k - 1) : catalog[j].identifier # identifier].id)
    ELSE Raise("LookupError")

\* id_ or ...: None and 0 are both false
NeedsLookup(name, id_) == ~Contains(name, "openSUSE") /\ id_ \in {NoId, 0}

\* Product.__init__(name, id_, arch), given the list a lookup would iterate
ProductInit(name, id_, arch, catalog) ==
    IF ~NeedsLookup(name, id_)
    THEN Ok([data |-> name, arch |-> arch,
             id |-> IF Contains(name, "openSUSE") THEN NoId ELSE id_])
    ELSE LET found == get_product_id(catalog, name \o "/" \o arch)
         IN  IF found.kind = "raise" THEN found
             ELSE Ok([data |-> name, arch |-> arch, id |-> found.value])

RECURSIVE Replace(_, _, _)
\* s.replace(old, new) for a one-character old
Replace(s, old, new) ==
    IF s = "" THEN ""
    ELSE (IF Ch(s, 1) = old THEN new ELSE Ch(s, 1)) \o Replace(Tail(s), old, new)

RECURSIVE EligibleItems(_, _, _)
\* the items of one release channel from position i on: the stable ones and
\* the first of Tumbleweed
EligibleItems(key, items, i) ==
    IF i > Len(items) THEN <<>>
    ELSE (IF items[i].state = "Stable" \/ (key = "Tumbleweed" /\ i = 1)
          THEN <<[name |-> Replace(items[i].name, " ", "_"), version |-> items[i].version]>>
          ELSE <<>>)
         \o EligibleItems(key, items, i + 1)

RECURSIVE OpensuseProducts(_)
\* the body of _get_opensuse_products over data.items(), a sequence of
\* channels [key, items] in the order of the document
OpensuseProducts(data) ==
    IF data = <<>> THEN <<>>
    ELSE EligibleItems(Head(data).key, Head(data).items, 1) \o OpensuseProducts(Tail(data))

\* what _get_opensuse_products returns or raises for a response of get_data
get_opensuse_products(response) ==
    IF response.kind = "raise" THEN response ELSE Ok(OpensuseProducts(response.value))

\* the filter of the comprehension of get_products
Selected(p, arch) ==
    /\ p.architecture = arch
    /\ \E prefix \in PRODUCTS : StartsWith(p.identifier, prefix)
    /\ RemoveSuffix(p.identifier, "/" \o arch) \notin EOL

MicroFamilies == {"SUSE-MicroOS", "SLE-Micro", "SL-Micro"}

MicroOrder(prefix) ==
    CASE prefix = "SUSE-MicroOS" -> 1 [] prefix = "SLE-Micro" -> 2 [] prefix = "SL-Micro" -> 3

\* re.match(r"(SUSE-MicroOS|SLE-Micro|SL-Micro)/(\d+)\.(\d+)", data): the
\* groups, or None
MicroMatch(data) ==
    LET fams == {f \in MicroFamilies : StartsWith(data, f \o "/")}
    IN  IF fams = {} THEN None
        ELSE LET prefix == CHOOSE f \in fams : TRUE
                 rest == SubSeq(data, Len(prefix) + 2, Len(data))
                 n1 == SpanLen(rest, TRUE)
                 after == SubSeq(rest, n1 + 2, Len(rest))
                 n2 == SpanLen(after, TRUE)
             IN  IF n1 = 0 \/ Ch(rest, n1 + 1) # "." \/ n2 = 0 THEN None
                 ELSE [kind |-> "match", prefix |-> prefix,
                       major |-> SubSeq(rest, 1, n1), minor |-> SubSeq(after, 1, n2)]

\* product_sort_key without its Micro group: (0, data) for every product
product_sort_key_plain(product) ==
    [group |-> 0, data |-> product.data, order |-> 0, major |-> 0, minor |-> 0]

\* product_sort_key: (1, order, major, minor) for a Micro, (0, data) otherwise
product_sort_key(product) ==
    LET match == MicroMatch(product.data)
    IN  IF match.kind = "match"
        THEN [group |-> 1, data |-> "", order |-> MicroOrder(match.prefix),
              major |-> ToInt(match.major), minor |-> ToInt(match.minor)]
        ELSE [group |-> 0, data |-> product.data, order |-> 0, major |-> 0, minor |-> 0]

\* a < b on the key tuples
KeyLess(a, b) ==
    IF a.group # b.group THEN a.group < b.group
    ELSE IF a.group = 0 THEN StrLess(a.data, b.data)
    ELSE IF a.order # b.order THEN a.order < b.order
    ELSE IF a.major # b.major THEN a.major < b.major
    ELSE a.minor < b.minor

ProductKeyLess(p, q) ==
    KeyLess(product_sort_key(p) , product_sort_key(q))

RECURSIVE InsertByKey(_, _)
InsertByKey(sorted, x) ==
    IF sorted = <<>> THEN <<x>>
    ELSE IF ProductKeyLess(x, Head(sorted)) THEN <<x>> \o sorted
    ELSE <<Head(sorted)>> \o InsertByKey(Tail(sorted), x)

RECURSIVE SortByKey(_)
\* products.sort(key=product_sort_key): ascending and stable
SortByKey(ps) ==
    IF ps = <<>> THEN <<>>
    ELSE InsertByKey(SortByKey(SubSeq(ps, 1, Len(ps) - 1)), ps[Len(ps)])

RECURSIVE InsertByName(_, _)
InsertByName(sorted, x) ==
    IF sorted = <<>> THEN <<x>>
    ELSE IF StrLess(x.data, Head(sorted).data) THEN <<x>> \o sorted
    ELSE <<Head(sorted)>> \o InsertByName(Tail(sorted), x)

RECURSIVE SortByName(_)
\* sorted(products): UserString orders products by their data
SortByName(ps) ==
    IF ps = <<>> THEN <<>>
    ELSE InsertByName(SortByName(SubSeq(ps, 1, Len(ps) - 1)), ps[Len(ps)])

\* the display name get_products gives a product of the community backend
OpensuseName(p) ==
    IF p.name # "openSUSE_Tumbleweed" THEN p.name \o "/" \o p.version ELSE p.name

RECURSIVE BuildSecondary(_, _, _, _)
\* the generator handed to sorted(): one Product per entry, ended by the first
\* constructor that raises; looked counts the id lookups made on the way
BuildSecondary(entries, arch, catalog, acc) ==
    IF entries = <<>> THEN acc
    ELSE LET name == OpensuseName(Head(entries))
             made == ProductInit(name, NoId, arch, catalog)
             looked == acc.looked + (IF NeedsLookup(name, NoId) THEN 1 ELSE 0)
         IN  IF made.kind = "raise"
             THEN [outcome |-> made, looked |-> looked]
             ELSE BuildSecondary(Tail(entries), arch, catalog,
                                 [outcome |-> Ok(Append(acc.outcome.value, made.value)),
                                  looked |-> looked])

ARCH == "x86_64"

ListMode == args_product = <<"list">>

\* get_products, line 114: the comprehension calls _get_suse_products
GetSuseProducts ==
    /\ pc = "get_products"
    /\ LET c == CachedCall(suse_cache, network.suse)
       IN  /\ lookups' = lookups + 1
           /\ requests' = [requests EXCEPT !.suse = @ + c.issued]
           /\ suse_cache' = c.cache
           /\ IF c.result.kind = "raise"
              THEN /\ pc' = "exit"
                   /\ exit_status' = Exit(1, IF ListMode THEN "Traceback" ELSE "")
                   /\ UNCHANGED <<cursor, building>>
              ELSE /\ pc' = "build"
                   /\ cursor' = [entries |-> c.result.value, at |-> 1]
                   /\ building' = <<>>
                   /\ UNCHANGED exit_status
    /\ UNCHANGED <<pure_vars, argv, network, args_product, main_regex, package_name,
                   opensuse_cache, all_products, products, futures, finished,
                   next_future, packages, origin, fetches>>

\* get_products, lines 112-118: one entry of the comprehension; a selected
\* entry becomes a Product, whose id is looked up when the entry's is false
BuildProduct ==
    /\ pc = "build"
    /\ cursor.at <= Len(cursor.entries)
    /\ LET p == cursor.entries[cursor.at]
           name == RemoveSuffix(p.identifier, "/" \o ARCH)
           looks == Selected(p, ARCH) /\ NeedsLookup(name, p.id)
           c == IF looks THEN CachedCall(suse_cache, network.suse)
                ELSE [result |-> Ok(<<>>), cache |-> suse_cache, issued |-> 0]
       IN  /\ lookups' = lookups + (IF looks THEN 1 ELSE 0)
           /\ requests' = [requests EXCEPT !.suse = @ + c.issued]
           /\ suse_cache' = c.cache
           /\ IF ~Selected(p, ARCH)
              THEN /\ cursor' = [cursor EXCEPT !.at = @ + 1]
                   /\ UNCHANGED <<building, pc, exit_status>>
              ELSE IF c.result.kind = "raise"
              THEN /\ pc' = "exit"
                   /\ exit_status' = Exit(1, IF ListMode THEN "Traceback" ELSE "")
                   /\ UNCHANGED <<building, cursor>>
              ELSE LET made == ProductInit(name, p.id, ARCH, c.result.value)
                   IN  IF made.kind = "raise"
                       THEN /\ pc' = "exit"
                            /\ exit_status' =
                                 Exit(1, IF ListMode THEN "Traceback" ELSE "Not found")
                            /\ UNCHANGED <<building, cursor>>
                       ELSE /\ building' = Append(building, made.value)
                            /\ cursor' = [cursor EXCEPT !.at = @ + 1]
                            /\ UNCHANGED <<pc, exit_status>>
    /\ UNCHANGED <<pure_vars, argv, network, args_product, main_regex, package_name,
                   opensuse_cache, all_products, products, futures, finished,
                   next_future, packages, origin, fetches>>

\* get_products, lines 119-131: sort the primary products, fetch the
\* community list, append its products sorted, return
FinishGetProducts ==
    /\ pc = "build"
    /\ cursor.at > Len(cursor.entries)
    /\ LET c == CachedCall(opensuse_cache, get_opensuse_products(network.opensuse))
           second == IF c.result.kind = "raise"
                     THEN [outcome |-> c.result, looked |-> 0]
                     ELSE BuildSecondary(c.result.value, ARCH, cursor.entries,
                                         [outcome |-> Ok(<<>>), looked |-> 0])
       IN  /\ requests' = [requests EXCEPT !.opensuse = @ + c.issued]
           /\ opensuse_cache' = c.cache
           /\ lookups' = lookups + second.looked
           /\ IF second.outcome.kind = "raise"
              THEN /\ pc' = "exit"
                   /\ exit_status' =
                        Exit(1, IF ListMode THEN "Traceback"
                                ELSE IF second.outcome.error = "LookupError" THEN "Not found"
                                ELSE "")
                   /\ UNCHANGED all_products
              ELSE /\ all_products' = SortByKey(building) \o SortByName(second.outcome.value)
                   /\ pc' = IF ListMode THEN "listing" ELSE "resolve"
                   /\ UNCHANGED exit_status
    /\ UNCHANGED <<pure_vars, argv, network, args_product, main_regex, package_name,
                   suse_cache, building, cursor, products, futures, finished,
                   next_future, packages, origin, fetches>>

\* parse_args, lines 371-374: print the catalog and exit
ListProducts ==
    /\ pc = "listing"
    /\ pc' = "exit"
    /\ exit_status' = Exit(0, "")
    /\ UNCHANGED <<pure_vars, argv, network, args_product, main_regex, package_name,
                   suse_cache, opensuse_cache, requests, lookups, building, cursor,
                   all_products, products, futures, finished, next_future, packages,
                   origin, fetches>>

(***************************************************************************)
(* parse_args and main                                                     *)
(***************************************************************************)

IsWordCh(c) == IsAlnum(c) \/ c = "_" \/ c = "-"

RECURSIVE WordRunLen(_)
WordRunLen(s) == IF s # "" /\ IsWordCh(Ch(s, 1)) THEN 1 + WordRunLen(Tail(s)) ELSE 0

RECURSIVE FindAllWords(_)
\* re.findall(r"[\w-]+", string, re.ASCII)
FindAllWords(s) ==
    IF s = "" THEN <<>>
    ELSE LET n == WordRunLen(s)
         IN  IF n = 0 THEN FindAllWords(Tail(s))
             ELSE <<SubSeq(s, 1, n)>> \o FindAllWords(SubSeq(s, n + 1, Len(s)))

\* get_name: the first of the longest runs, None when there is no run
get_name(string) ==
    LET matches == FindAllWords(string)
    IN  IF matches = <<>> THEN None
        ELSE Ok(matches[CHOOSE k \in 1..Len(matches) :
                          /\ \A j \in 1..Len(matches) : Len(matches[j]) <= Len(matches[k])
                          /\ \A j \in 1..(k - 1) : Len(matches[j]) < Len(matches[k])])

\* main, lines 400-405: the exact matches of a term, else its
\* case-insensitive substring matches
Matched(all, abbrev) ==
    LET exact == SelectSeq(all, LAMBDA q : q.data = abbrev)
    IN  IF exact # <<>> THEN exact
        ELSE SelectSeq(all, LAMBDA q : Contains(Lower(q.data), Lower(abbrev)))

RECURSIVE ResolveTerms_skip(_, _)
\* the loop over args.product passing over a term that matches nothing
ResolveTerms_skip(all, terms) ==
    IF terms = <<>> THEN Ok(<<>>)
    ELSE Ok(Matched(all, Head(terms)) \o ResolveTerms_skip(all, Tail(terms)).value)

RECURSIVE ResolveTerms(_, _)
\* main, lines 398-408: the loop over args.product; sys.exit at the first
\* term that matches nothing
ResolveTerms(all, terms) ==
    IF terms = <<>> THEN Ok(<<>>)
    ELSE LET matched == Matched(all, Head(terms))
             rest == ResolveTerms(all, Tail(terms))
         IN  IF matched = <<>> THEN Raise("No matching product")
             ELSE IF rest.kind = "raise" THEN rest
             ELSE Ok(matched \o rest.value)

\* parse_args: argparse converts every --product value with product_string,
\* then lines 371-377
ParseArgs ==
    /\ pc = "parse_args"
    /\ LET converted == [k \in 1..Len(argv.product) |-> product_string(argv.product[k])]
           bad == {k \in 1..Len(converted) : converted[k].kind = "raise"}
           first == CHOOSE k \in bad : \A j \in bad : k <= j
           values == [k \in 1..Len(converted) |-> converted[k].value]
       IN  IF bad # {}
           THEN \* ValueError is an argparse usage error, IndexError is not caught
                /\ pc' = "exit"
                /\ exit_status' = IF converted[first].error = "ValueError"
                                  THEN Exit(2, "usage") ELSE Exit(1, "Traceback")
                /\ UNCHANGED args_product
           ELSE /\ args_product' = values
                /\ IF values = <<"list">>
                   THEN pc' = "get_products" /\ UNCHANGED exit_status
                   ELSE IF argv.package = ""
                   THEN pc' = "exit" /\ exit_status' = Exit(1, "help")
                   ELSE pc' = "main" /\ UNCHANGED exit_status
    /\ UNCHANGED <<pure_vars, argv, network, main_regex, package_name, suse_cache,
                   opensuse_cache, requests, lookups, building, cursor, all_products,
                   products, futures, finished, next_future, packages, origin, fetches>>

\* main, lines 386-391
CompileTerm ==
    /\ pc = "main"
    /\ args_product' = IF args_product = <<"any">> THEN <<>> ELSE args_product
    /\ main_regex' = get_regex(argv.package, argv.insensitive, argv.regex)
    /\ package_name' = get_name(argv.package)
    /\ IF get_name(argv.package) = None
       THEN pc' = "exit" /\ exit_status' = Exit(1, "Invalid package")
       ELSE pc' = "get_products" /\ UNCHANGED exit_status
    /\ UNCHANGED <<pure_vars, argv, network, suse_cache, opensuse_cache, requests,
                   lookups, building, cursor, all_products, products, futures,
                   finished, next_future, packages, origin, fetches>>

\* main, lines 395-408
ResolveProducts ==
    /\ pc = "resolve"
    /\ LET resolved == IF Len(args_product) = 0 THEN Ok(all_products)
                       ELSE ResolveTerms(all_products, args_product)
       IN  IF resolved.kind = "raise"
           THEN /\ pc' = "exit"
                /\ exit_status' = Exit(1, "No matching product")
                /\ UNCHANGED products
           ELSE /\ products' = resolved.value
                /\ pc' = "print_version"
                /\ UNCHANGED exit_status
    /\ UNCHANGED <<pure_vars, argv, network, args_product, main_regex, package_name,
                   suse_cache, opensuse_cache, requests, lookups, building, cursor,
                   all_products, futures, finished, next_future, packages, origin,
                   fetches>>

(***************************************************************************)
(* print_version: the thread pool and the loop over the futures            *)
(***************************************************************************)

MAX_WORKERS == 10

Min(a, b) == IF a < b THEN a ELSE b

\* ThreadPoolExecutor(max_workers=min(10, len(products)))
max_workers == Min(MAX_WORKERS, Len(products))

Running == {i \in 1..Len(futures) : futures[i].state = "running"}

\* the future awaited next, were the loop over as_completed(futures)
Awaited_completion(position, done) ==
    IF position <= Len(done) THEN done[position] ELSE 0

\* for future in futures: the future awaited next is the next one submitted
Awaited(position, done) == position

\* lines 275-281: the rows of a result are appended; RequestException is
\* passed over and any other Exception is printed, neither adds a row
Collected(rows, outcome) ==
    IF outcome.kind = "ok" THEN rows \o outcome.value ELSE rows

\* the loop left at the first future that raised
AfterFuture_break(position, outcome, n) ==
    IF outcome.kind = "ok" THEN position + 1 ELSE n + 1

\* the loop goes on to the next future whatever the outcome
AfterFuture(position, outcome, n) == position + 1

\* line 269: the executor is created; max_workers=0 raises ValueError
OpenExecutor ==
    /\ pc = "print_version"
    /\ IF Len(products) = 0
       THEN pc' = "exit" /\ exit_status' = Exit(1, "Traceback")
       ELSE pc' = "submit" /\ UNCHANGED exit_status
    /\ UNCHANGED <<pure_vars, argv, network, args_product, main_regex, package_name,
                   suse_cache, opensuse_cache, requests, lookups, building, cursor,
                   all_products, products, futures, finished, next_future, packages,
                   origin, fetches>>

\* lines 270-273: executor.submit for the next product
Submit ==
    /\ pc = "submit"
    /\ futures' = Append(futures, [state |-> "queued", outcome |-> None, runs |-> 0])
    /\ IF Len(futures) + 1 = Len(products)
       THEN pc' = "collect" /\ next_future' = 1
       ELSE UNCHANGED <<pc, next_future>>
    /\ UNCHANGED <<pure_vars, argv, network, args_product, main_regex, package_name,
                   suse_cache, opensuse_cache, requests, lookups, building, cursor,
                   all_products, products, finished, packages, origin, fetches,
                   exit_status>>

\* a free worker takes the oldest queued work item and calls fetch_version,
\* which sends the product's package request
StartTask(i) ==
    /\ futures[i].state = "queued"
    /\ \A j \in 1..(i - 1) : futures[j].state # "queued"
    /\ Cardinality(Running) < max_workers
    /\ futures' = [futures EXCEPT ![i].state = "running", ![i].runs = @ + 1]
    /\ fetches' = fetches + 1
    /\ UNCHANGED <<pure_vars, argv, network, pc, args_product, main_regex, package_name,
                   suse_cache, opensuse_cache, requests, lookups, building, cursor,
                   all_products, products, finished, next_future, packages, origin,
                   exit_status>>

\* fetch_version returns or raises in its worker; the future holds the outcome
FinishTask(i) ==
    /\ futures[i].state = "running"
    /\ futures' = [futures EXCEPT
                     ![i].state = "done",
                     ![i].outcome = fetch_version(products[i],
                                                  network.packages[products[i].data],
                                                  main_regex)]
    /\ finished' = Append(finished, i)
    /\ UNCHANGED <<pure_vars, argv, network, pc, args_product, main_regex, package_name,
                   suse_cache, opensuse_cache, requests, lookups, building, cursor,
                   all_products, products, next_future, packages, origin, fetches,
                   exit_status>>

\* lines 274-281: future.result() of the awaited future, once it is done
CollectResult ==
    /\ pc = "collect"
    /\ next_future <= Len(futures)
    /\ LET i == Awaited(next_future, finished)
       IN  /\ i \in 1..Len(futures)
           /\ futures[i].state = "done"
           /\ packages' = Collected(packages, futures[i].outcome)
           /\ origin' = [k \in 1..Len(Collected(packages, futures[i].outcome)) |->
                           IF k <= Len(origin) THEN origin[k] ELSE i]
           /\ next_future' = AfterFuture(next_future, futures[i].outcome, Len(futures))
    /\ UNCHANGED <<pure_vars, argv, network, pc, args_product, main_regex, package_name,
                   suse_cache, opensuse_cache, requests, lookups, building, cursor,
                   all_products, products, futures, finished, fetches, exit_status>>

\* the with block is left once every task is over; lines 282-289 print the rows
PrintRows ==
    /\ pc = "collect"
    /\ next_future > Len(futures)
    /\ \A i \in 1..Len(futures) : futures[i].state = "done"
    /\ pc' = "exit"
    /\ exit_status' = Exit(0, "")
    /\ UNCHANGED <<pure_vars, argv, network, args_product, main_regex, package_name,
                   suse_cache, opensuse_cache, requests, lookups, building, cursor,
                   all_products, products, futures, finished, next_future, packages,
                   origin, fetches>>

(***************************************************************************)
(* susepkg -p list: the catalog of every answer the backends can give      *)
(***************************************************************************)

\* The product list of the enterprise backend holds at most MaxCatalog entries.
MaxCatalog == 3

Entry(identifier, architecture, id) ==
    [identifier |-> identifier, architecture |-> architecture, id |-> id]

\* Supported and retired releases, Micro families whose numeric order is not
\* their text order, a Micro without a minor version, another architecture, a
\* family susepkg does not list, an entry without an id and an identifier
\* without its architecture.
SuseEntries ==
    { Entry("SLES/15.5/x86_64", "x86_64", 1),
      Entry("SLES/12.5/x86_64", "x86_64", 2),
      Entry("SLE-Micro/5.5/x86_64", "x86_64", 3),
      Entry("SLE-Micro/5.10/x86_64", "x86_64", 4),
      Entry("SL-Micro/6.0/x86_64", "x86_64", 0),
      Entry("SUSE-MicroOS/5.2/x86_64", "x86_64", 6),
      Entry("SL-Micro/6/x86_64", "x86_64", 7),
      Entry("SLES/15.3/x86_64", "x86_64", 8),
      Entry("SLES/15.5/aarch64", "aarch64", 9),
      Entry("SLED/15.5/x86_64", "x86_64", 10),
      Entry("SLES/15.6", "x86_64", 0) }

\* the sequences over S of length at most n that hold no element twice
DistinctSeqs(S, n) ==
    {q \in SeqsUpTo(S, n) : \A i, j \in 1..Len(q) : q[i] = q[j] => i = j}

Item(name, version, state) == [name |-> name, version |-> version, state |-> state]

\* distributions.json: release channels in the order of the document
Distributions ==
    { << [key |-> "Tumbleweed",
          items |-> <<Item("openSUSE Tumbleweed", "", "Rolling")>>],
         [key |-> "Leap",
          items |-> <<Item("openSUSE Leap", "15.6", "Stable"),
                      Item("openSUSE Leap", "15.5", "EOL")>>] >>,
      << [key |-> "LeapMicro",
          items |-> <<Item("openSUSE Leap Micro", "6.0", "Stable")>>],
         [key |-> "Leap",
          items |-> <<Item("openSUSE Leap", "15.6", "Stable"),
                      Item("openSUSE Leap", "15.5", "Stable")>>] >> }

RunStart ==
    /\ pc = "parse_args"
    /\ args_product = <<>>
    /\ main_regex = None
    /\ package_name = None
    /\ suse_cache = None
    /\ opensuse_cache = None
    /\ requests = [suse |-> 0, opensuse |-> 0]
    /\ lookups = 0
    /\ building = <<>>
    /\ cursor = [entries |-> <<>>, at |-> 0]
    /\ all_products = <<>>
    /\ products = <<>>
    /\ futures = <<>>
    /\ finished = <<>>
    /\ next_future = 0
    /\ packages = <<>>
    /\ origin = <<>>
    /\ fetches = 0
    /\ exit_status = None

InitCatalog ==
    /\ NoCall
    /\ argv = [product |-> <<"list">>, package |-> "", insensitive |-> FALSE, regex |-> FALSE]
    /\ network \in
         {[suse |-> Ok(q), opensuse |-> d, packages |-> <<>>] :
             q \in DistinctSeqs(SuseEntries, MaxCatalog),
             d \in {Ok(x) : x \in Distributions} \cup {Raise("RequestException")}}
         \cup
         {[suse |-> Raise("RequestException"), opensuse |-> Ok(x), packages |-> <<>>] :
             x \in Distributions}
    /\ RunStart

NextCatalog ==
    \/ ParseArgs
    \/ GetSuseProducts
    \/ BuildProduct
    \/ FinishGetProducts
    \/ ListProducts

SpecCatalog == InitCatalog /\ [][NextCatalog]_vars

IsPrimary(p) == p.id # NoId

\* a product of one of the three Micro families
MicroEdition(p) == \E f \in MicroFamilies : StartsWith(p.data, f \o "/")

\* a Micro product with a numeric major.minor version, as product_sort_key groups them
VersionedMicro(p) == MicroMatch(p.data).kind = "match"

MicroFamilyOf(p) == CHOOSE f \in MicroFamilies : StartsWith(p.data, f \o "/")

MicroVersionOf(p) ==
    LET version == SubSeq(p.data, Len(MicroFamilyOf(p)) + 2, Len(p.data))
        n1 == SpanLen(version, TRUE)
    IN  <<ToInt(SubSeq(version, 1, n1)),
          ToInt(SubSeq(version, n1 + 2, n1 + 1 + SpanLen(SubSeq(version, n1 + 2, Len(version)), TRUE)))>>

\* family, then major, then minor, all ascending
MicroNotAfter(p, q) ==
    LET fp == MicroOrder(MicroFamilyOf(p))
        fq == MicroOrder(MicroFamilyOf(q))
        vp == MicroVersionOf(p)
        vq == MicroVersionOf(q)
    IN  \/ fp < fq
        \/ fp = fq /\ vp[1] < vq[1]
        \/ fp = fq /\ vp[1] = vq[1] /\ vp[2] <= vq[2]

Returned == pc \in {"listing", "resolve"}

\* what the two orders of C9 share: the products of the secondary backend come
\* after those of the primary backend, by display name; Micro products are
\* ordered by family, then major, then minor; the other primary products by
\* display name
CatalogOrderWithin(micro(_)) ==
    \A i, j \in 1..Len(all_products) :
        i < j =>
            LET p == all_products[i]
                q == all_products[j]
            IN  /\ IsPrimary(q) => IsPrimary(p)
                /\ (~IsPrimary(p) /\ ~IsPrimary(q)) => ~StrLess(q.data, p.data)
                /\ (IsPrimary(p) /\ IsPrimary(q) /\ micro(p) /\ micro(q)) => MicroNotAfter(p, q)
                /\ (IsPrimary(p) /\ IsPrimary(q) /\ ~micro(p) /\ ~micro(q))
                      => ~StrLess(q.data, p.data)

\* C9 as claimed: in the result of get_products every Micro product precedes
\* every other product of the primary backend
C9_MicroFirst ==
    Returned =>
        /\ \A i, j \in 1..Len(all_products) :
              (/\ IsPrimary(all_products[i]) /\ IsPrimary(all_products[j])
               /\ MicroEdition(all_products[i]) /\ ~MicroEdition(all_products[j])) => i < j
        /\ CatalogOrderWithin(MicroEdition)

\* C9 as the code has it: the Micro products with a major.minor version FOLLOW
\* every other product of the primary backend (a Micro without a minor version
\* counts among those others); they are ordered by family, then by numeric
\* major and minor; the others are ordered by display name; the products of the
\* secondary backend come last, ordered by display name.
C9_MicroLast ==
    Returned =>
        /\ \A i, j \in 1..Len(all_products) :
              (/\ IsPrimary(all_products[i]) /\ IsPrimary(all_products[j])
               /\ VersionedMicro(all_products[i]) /\ ~VersionedMicro(all_products[j])) => j < i
        /\ CatalogOrderWithin(VersionedMicro)

\* a catalog with a SLES release, two releases of one Micro family whose
\* numeric order is not their text order, and community products
C9_Witness ==
    /\ pc = "listing"
    /\ Len(all_products) >= 4
    /\ all_products[1].data = "SLES/15.5"
    /\ all_products[2].data = "SLE-Micro/5.5"
    /\ all_products[3].data = "SLE-Micro/5.10"
    /\ ~IsPrimary(all_products[4])

(***************************************************************************)
(* susepkg -p ... <package>: runs of main over a small catalog             *)
(***************************************************************************)

\* The command line holds at most MaxTerms --product values.
MaxTerms == 2

\* The catalog of the runs: SLES/15.5, SL-Micro/6.0 (listed without an id, so
\* its Product looks the id up) and openSUSE_Leap/15.6.
RunCatalog ==
    << Entry("SL-Micro/6.0/x86_64", "x86_64", 0),
       Entry("SLES/15.5/x86_64", "x86_64", 1),
       Entry("SLES/15.5/aarch64", "aarch64", 9) >>

RunDistributions ==
    << [key |-> "Leap", items |-> <<Item("openSUSE Leap", "15.6", "Stable")>>] >>

RunProductNames == {"SLES/15.5", "SL-Micro/6.0", "openSUSE_Leap/15.6"}

Rec(name, version, release) == [name |-> name, version |-> version, release |-> release]

\* What the package searches answer: everything succeeds; or the SLES search
\* fails in the network and the Leap listing holds a malformed file name; or the
\* Micro search fails in the network.
PackageAnswers ==
    { [n \in RunProductNames |->
         CASE n = "SLES/15.5" -> Ok(<<Rec("fo", "1.10", "1"), Rec("fo", "1.2", "1"),
                                      Rec("ff", "1.2", "1")>>)
           [] n = "SL-Micro/6.0" -> Ok(<<Rec("fo", "1.2", "1")>>)
           [] n = "openSUSE_Leap/15.6" -> Ok(<<FileOf(Rec("fo", "1.10", "2")),
                                               FileOf(Rec("ofo", "1.2", "2"))>>)],
      [n \in RunProductNames |->
         CASE n = "SLES/15.5" -> Raise("RequestException")
           [] n = "SL-Micro/6.0" -> Ok(<<Rec("fo", "1.2", "1")>>)
           [] n = "openSUSE_Leap/15.6" -> Ok(<<[file |-> "fo.x86_64.rpm"],
                                               FileOf(Rec("fo", "1.10", "2"))>>)],
      [n \in RunProductNames |->
         CASE n = "SLES/15.5" -> Ok(<<Rec("fo", "1.2", "1"), Rec("ff", "1.2", "1")>>)
           [] n = "SL-Micro/6.0" -> Raise("RequestException")
           [] n = "openSUSE_Leap/15.6" -> Ok(<<FileOf(Rec("fo", "1.10", "2"))>>)] }

\* --product values: an exact name, a substring of two names, a Micro alias
\* that product_string rewrites, a term that matches nothing and a Micro term
\* without a minor version
Terms == {"SLES/15.5", "15", "Micro/6.0", "nope", "Micro/5"}

TermLists == (SeqsUpTo(Terms, MaxTerms) \ {<<>>}) \cup {<<"list">>, <<"any">>}

\* search terms: a glob, one without a name in it, none
PackageArgs == {"f*", "*", ""}

InitRun ==
    /\ NoCall
    /\ argv \in [product : TermLists, package : PackageArgs,
                 insensitive : {FALSE}, regex : {FALSE}]
    /\ network \in
         {[suse |-> Ok(RunCatalog), opensuse |-> Ok(RunDistributions), packages |-> a] :
             a \in PackageAnswers}
         \cup
         {[suse |-> su, opensuse |-> os, packages |-> CHOOSE a \in PackageAnswers : TRUE] :
             su \in {Ok(RunCatalog), Raise("RequestException")},
             os \in {Ok(RunDistributions), Raise("RequestException")}}
    /\ RunStart

NextRun ==
    \/ ParseArgs
    \/ CompileTerm
    \/ GetSuseProducts
    \/ BuildProduct
    \/ FinishGetProducts
    \/ ListProducts
    \/ ResolveProducts
    \/ OpenExecutor
    \/ Submit
    \/ \E i \in 1..Len(futures) : StartTask(i)
    \/ \E i \in 1..Len(futures) : FinishTask(i)
    \/ CollectResult
    \/ PrintRows

SpecRun == InitRun /\ [][NextRun]_vars

\* C2: the rows print_version collects never hold the same (product, name)
\* twice, and there are at most as many as products times distinct names.
C2_NoDuplicateRows ==
    /\ \A j, k \in 1..Len(packages) :
          (packages[j].product = packages[k].product /\ packages[j].name = packages[k].name)
              => j = k
    /\ Len(packages) <= Len(products) * Cardinality({packages[k].name : k \in 1..Len(packages)})

\* the rows the task of product i contributes: those fetch_version returns,
\* none when it raises
Contribution(i) ==
    LET outcome == fetch_version(products[i], network.packages[products[i].data], main_regex)
    IN  IF outcome.kind = "ok" THEN outcome.value ELSE <<>>

RECURSIVE RowsUpTo(_)
RowsUpTo(n) == IF n = 0 THEN <<>> ELSE RowsUpTo(n - 1) \o Contribution(n)

Failed(i) == futures[i].state = "done" /\ futures[i].outcome.kind = "raise"

\* C3: no task is run twice, and once tasks were submitted the run ends only
\* by printing: every task has run once, a task that raised (in the network or
\* otherwise) contributes no row, and every other product contributes the
\* rows of its own fetch.
C3_FailuresIsolated ==
    /\ \A i \in 1..Len(futures) : futures[i].runs <= 1
    /\ (futures # <<>> /\ pc = "exit") =>
          /\ exit_status = Exit(0, "")
          /\ Len(futures) = Len(products)
          /\ \A i \in 1..Len(futures) : futures[i].state = "done" /\ futures[i].runs = 1
          /\ packages = RowsUpTo(Len(products))

\* a run that ended with a task failed in the network, another failed on a
\* malformed record, and rows of a third product collected after them
C3_Witness ==
    /\ pc = "exit"
    /\ \E i, j, k \in 1..Len(futures) :
          /\ Failed(i) /\ futures[i].outcome.error = "RequestException"
          /\ Failed(j) /\ futures[j].outcome.error = "ValueError"
          /\ i < k /\ j < k
          /\ \E a \in 1..Len(origin) : origin[a] = k

\* C4: the rows are collected in submission order: the rows of a product
\* submitted earlier precede those of a product submitted later, whatever the
\* order in which the tasks completed.
C4_SubmissionOrder ==
    /\ Len(origin) = Len(packages)
    /\ \A a, b \in 1..Len(origin) : a < b => origin[a] <= origin[b]
    /\ \A a \in 1..Len(origin) :
          packages[a].product = RemovePrefix(products[origin[a]].data, "openSUSE_")

\* two products have rows collected, and the one submitted later completed first
C4_Witness ==
    /\ pc = "exit"
    /\ \E x, y \in 1..Len(finished) :
          /\ x < y
          /\ finished[x] > finished[y]
          /\ \E a, b \in 1..Len(origin) : origin[a] = finished[x] /\ origin[b] = finished[y]

Unmatched(term) == Matched(all_products, term) = <<>>

\* C5: when a --product term matches no catalog entry, exactly or as a
\* substring, no package request is ever sent and no task is submitted, and
\* the process exits with a failure, whatever the other terms match.
C5_NoFetchOnUnmatchedTerm ==
    (~ListMode /\ \E k \in 1..Len(args_product) : Unmatched(args_product[k])) =>
        /\ fetches = 0
        /\ futures = <<>>
        /\ pc = "exit" => exit_status.code # 0

\* the run was aborted for a term that matches nothing, beside a term that
\* does match
C5_Witness ==
    /\ pc = "exit"
    /\ exit_status = Exit(1, "No matching product")
    /\ all_products # <<>>
    /\ \E j, k \in 1..Len(args_product) :
          ~Unmatched(args_product[j]) /\ Unmatched(args_product[k])

====
